---- MODULE Spec2Model ----
(***************************************************************************)
(* Model of package logx (src/logx/logx_v2.go): an asynchronous logger.    *)
(* Callers emit leveled messages into a buffered channel; worker           *)
(* goroutines started by StartWorker drain it and write each entry to the  *)
(* active file under the logger's mutex, rotating the file by size.        *)
(*                                                                         *)
(* Goroutines are modelled as processes with a program counter: the        *)
(* producers (callers of Debug/Info/Warn/Error), the workers, one caller   *)
(* of SetLevel and one caller of Close.  Each action is one atomic step of *)
(* the Go code between two synchronisation points (channel operation,      *)
(* mutex operation, WaitGroup operation, system call).                     *)
(*                                                                         *)
(* The file system is modelled by inodes (file contents, a sequence of     *)
(* entry ids, one per persisted line), the directory entry of the target   *)
(* path (activeIno) and the directory entries of the retirement names,     *)
(* one per clock second (retired).  A message is modelled by its identity  *)
(* (id) and its byte length (len).  Console echo (consoleOut) touches no   *)
(* state any property here reads and is left out.                          *)
(***************************************************************************)
EXTENDS Integers, Sequences, FiniteSets, TLC

\* ------------------------------------------------------------- constants
DEBUG == 0
INFO == 1
WARN == 2
ERROR == 3
Levels == {DEBUG, INFO, WARN, ERROR}

\* ---------------------------------------------------------------- bounds
\* Calls of Debug/Info/Warn/Error in one behaviour.
MaxEmits == 2
\* Capacity of logChan in the model (the code makes it 2000, logx_v2.go:66).
ChanCap == 2
\* I/O failures (write, rename, mkdir, open) injected in one behaviour.
MaxFaults == 1

\* Goroutines calling the emit wrappers.
Producers == {"p1"}
\* Goroutines StartWorker can start, in the order of the calls of StartWorker.
WorkerOrder == <<"w1", "w2">>
Workers == {WorkerOrder[i] : i \in DOMAIN WorkerOrder}
\* The clock seconds of a behaviour; retirement names have second resolution.
Seconds == 0..1
\* level and maxSizeMB arguments of NewLogger.
InitLevels == {INFO}
SizesMB == {1}
\* level arguments of SetLevel: one below and one above the level of NewLogger.
SetLevels == {DEBUG, ERROR}
\* Message lengths in bytes: two half messages reach 1 MB together, a full one alone.
HalfMsg == 512 * 1024 - 8
FullMsg == 1024 * 1024
\* The call sites of the emit wrappers Debug, Info, Warn and Error, each with its message.
EmitCalls == {[level |-> DEBUG, len |-> HalfMsg], [level |-> INFO, len |-> HalfMsg],
              [level |-> WARN, len |-> FullMsg], [level |-> ERROR, len |-> HalfMsg]}

\* The behaviours explored, by scenario:
\*   "files"    a moving clock and failing I/O;
\*   "levels"   callers of SetLevel;
\*   "queue"    one emit more than logChan holds;
\*   "workers"  StartWorker called up to twice.
\* Outside its scenario the clock is frozen, I/O is reliable, SetLevel is not
\* called, StartWorker is called at most once and MaxEmits bounds the emits.
Scenarios == {"files", "levels", "queue", "workers"}

NoEntry == [id |-> 0, level |-> 0, len |-> 0]

VARIABLES
    lg,           \* "none" before NewLogger, "ok" once it returned a Logger, "failed" if it returned an error
    level,        \* l.level
    maxSize,      \* l.maxSize
    currentSize,  \* l.currentSize
    file,         \* l.file and the file under l.fileWriter: index into handles, 0 = nil
    handles,      \* every *os.File ever opened: [ino, open, closes]
    inodes,       \* file contents: inodes[i] is the sequence of entry ids persisted in file i
    activeIno,    \* inode at l.filePath, 0 = no such file
    retired,      \* retired[t]: inode at l.filePath.<t>.log, 0 = no such file
    now,          \* the clock, in seconds
    logChan,      \* buffered entries of l.logChan
    chanClosed,   \* l.logChan was closed
    wg,           \* counter of l.wg
    mu,           \* holder of l.mu: "free", "setlevel" or a worker
    pcW, held,    \* workers: position and the entry received
    pcP, pend,    \* producers: position and the entry being sent
    pcS, argS,    \* SetLevel caller: position and argument
    pcC,          \* Close caller: position
    panic,        \* "" or the run-time panic that ended the process
    emits,        \* history: every emit call [p, level, len, accepted]
    enq,          \* history: ids in the order they were enqueued
    out,          \* history: every fileWriter.Output call [id, ok, h, hopen]
    rot,          \* history: the rotate call of NewLogger or of the write in progress
    startedAtClose, \* history: workers started when Close was called
    blockedAtClose, \* history: ids of the entries whose send waited on the full channel when Close was called
    emitRace,     \* history: an emit was in progress when Close was called, or issued after
    everSet,      \* history: SetLevel has returned at least once
    faults,       \* I/O failures injected so far
    scenario      \* the scenario of this behaviour

vars == <<lg, level, maxSize, currentSize, file, handles, inodes, activeIno, retired,
          now, logChan, chanClosed, wg, mu, pcW, held, pcP, pend, pcS, argS, pcC,
          panic, emits, enq, out, rot, startedAtClose, blockedAtClose, emitRace, everSet, faults, scenario>>

\* Fields of the Logger and the files it writes.
loggerVars == <<level, maxSize, currentSize, file, handles, inodes, activeIno, retired,
                logChan, chanClosed, wg>>
fileVars == <<currentSize, file, handles, inodes, activeIno, retired, rot>>
procVars == <<pcW, held, pcP, pend, pcS, argS, pcC>>
histVars == <<emits, enq, out, startedAtClose, blockedAtClose, emitRace, everSet>>

NoRot == [ran |-> FALSE, err |-> FALSE, mkdirOk |-> TRUE, statOk |-> FALSE,
          renameOk |-> FALSE, openOk |-> FALSE, prevIno |-> 0, prevFile |-> 0, stamp |-> 0,
          sizeBefore |-> 0]

Running == lg = "ok" /\ panic = ""

\* Calls of StartWorker so far, and the calls the scenario allows.
Started == Cardinality({w \in DOMAIN pcW : pcW[w] # "unstarted"})
StartsAllowed == IF scenario = "workers" THEN Len(WorkerOrder) ELSE 1

\* Calls of the emit wrappers the scenario allows.
EmitsAllowed == IF scenario = "queue" THEN ChanCap + 1 ELSE MaxEmits

\* I/O failures the environment may still inject.
FaultsLeft == IF scenario = "files" THEN MaxFaults - faults ELSE 0

\* Number of I/O failures among a step's outcomes.
Failures(oks) == Cardinality({i \in DOMAIN oks : ~oks[i]})

Range(s) == {s[i] : i \in DOMAIN s}

levelString(l) ==
    CASE l = DEBUG -> "DEBUG"
      [] l = INFO -> "INFO"
      [] l = WARN -> "WARN"
      [] l = ERROR -> "ERROR"
      [] OTHER -> "UNKNOWN"

\* len(formatted) for formatted := fmt.Sprintf("[%s] %s", levelString(entry.level), entry.msg)
FormattedLen(e) == Len("[" \o levelString(e.level) \o "] ") + e.len

\* ------------------------------------------------------------------ rotate
\* Mutant of SizeAfterRotate: the counter is reset before the open is attempted.
SizeAfterRotateAlwaysZero(openOk, size) == 0

\* rotate: l.currentSize = 0 once the open succeeded; an early return leaves it.
SizeAfterRotate(openOk, size) == IF openOk THEN 0 ELSE size

\* Mutant of RotateErr: a failed rename is returned as an error too.
RotateErrOnRename(mkdirOk, renameOk, openOk) == ~openOk \/ ~renameOk

\* The error rotate returns: that of os.OpenFile; the results of os.MkdirAll and
\* os.Rename are not looked at.
RotateErr(mkdirOk, renameOk, openOk) == ~openOk

\* l.rotate() with the outcomes of os.MkdirAll, os.Rename and os.OpenFile.
rotate(mkdirOk, renameOk, openOk) ==
    LET err == RotateErr(mkdirOk, renameOk, openOk)
        closed == IF file # 0
                  THEN [handles EXCEPT ![file].open = FALSE, ![file].closes = @ + 1]
                  ELSE handles
        statOk == activeIno # 0
        renamed == statOk /\ renameOk
        active1 == IF renamed THEN 0 ELSE activeIno
        create == active1 = 0
        inodes1 == IF create THEN Append(inodes, <<>>) ELSE inodes
        ino == IF create THEN Len(inodes1) ELSE active1
    IN  /\ retired' = IF renamed THEN [retired EXCEPT ![now] = activeIno] ELSE retired
        /\ rot' = [ran |-> TRUE, err |-> err, mkdirOk |-> mkdirOk, statOk |-> statOk,
                   renameOk |-> renamed, openOk |-> openOk, prevIno |-> activeIno,
                   prevFile |-> file, stamp |-> now, sizeBefore |-> currentSize]
        /\ IF ~err
           THEN /\ inodes' = inodes1
                /\ activeIno' = ino
                /\ handles' = Append(closed, [ino |-> ino, open |-> TRUE, closes |-> 0])
                /\ file' = Len(closed) + 1
                /\ currentSize' = SizeAfterRotate(~err, currentSize)
           ELSE /\ inodes' = inodes
                /\ activeIno' = active1
                /\ handles' = closed
                /\ currentSize' = SizeAfterRotate(~err, currentSize)
                /\ UNCHANGED file

\* The outcomes a rotate step may draw: os.Rename is only called when the file exists.
RotateOutcomes ==
    {o \in [1..3 -> BOOLEAN] : /\ Failures(o) <= FaultsLeft
                                /\ (activeIno = 0 => o[2])}

\* ---------------------------------------------------------------- NewLogger
\* Mutant of NewLoggerResult: the error of rotate is dropped and a Logger is returned.
NewLoggerResultAlwaysOk(openOk) == "ok"

\* if err := l.rotate(); err != nil { return nil, err }; return l, nil
NewLoggerResult(openOk) == IF openOk THEN "ok" ELSE "failed"

NewLogger(lv, mb, o) ==
    /\ lg = "none"
    /\ level' = lv
    /\ maxSize' = mb * 1024 * 1024
    /\ rotate(o[1], o[2], o[3])
    /\ lg' = NewLoggerResult(~RotateErr(o[1], o[2], o[3]))
    /\ faults' = faults + Failures(o)
    /\ UNCHANGED <<now, logChan, chanClosed, wg, mu, panic, scenario>>
    /\ UNCHANGED procVars
    /\ UNCHANGED histVars

\* --------------------------------------------------------------- StartWorker
StartWorker(w) ==
    /\ Running
    /\ pcW[w] = "unstarted"
    /\ Started < StartsAllowed
    /\ \E i \in DOMAIN WorkerOrder :
          /\ WorkerOrder[i] = w
          /\ \A j \in 1..(i - 1) : pcW[WorkerOrder[j]] # "unstarted"
    /\ wg' = wg + 1
    /\ pcW' = [pcW EXCEPT ![w] = "recv"]
    /\ UNCHANGED <<lg, scenario, level, maxSize, now, logChan, chanClosed, mu, panic, faults,
                   held, pcP, pend, pcS, argS, pcC>>
    /\ UNCHANGED fileVars
    /\ UNCHANGED histVars

\* Mutant of RangeDone: the loop ends as soon as the channel is closed.
RangeDoneEarly(q, closed) == closed

\* range l.logChan is over once the channel is closed and drained.
RangeDone(q, closed) == closed /\ q = <<>>

\* Mutant of Dequeue: the newest entry is received first.
DequeueNewest(q) == [entry |-> q[Len(q)], rest |-> SubSeq(q, 1, Len(q) - 1)]

\* A receive from the channel: the entry received and the entries left.
Dequeue(q) == [entry |-> Head(q), rest |-> Tail(q)]

\* Mutant of WgDone: the worker leaves without l.wg.Done().
WgDoneForgotten(n) == n

\* l.wg.Done()
WgDone(n) == n - 1

\* for entry := range l.logChan: receive the oldest entry, or leave the loop
\* (deferred l.wg.Done()) when the channel is closed and empty.
WorkerRecv(w) ==
    /\ Running
    /\ pcW[w] = "recv"
    /\ IF RangeDone(logChan, chanClosed)
       THEN /\ pcW' = [pcW EXCEPT ![w] = "done"]
            /\ wg' = WgDone(wg)
            /\ UNCHANGED <<held, logChan>>
       ELSE /\ logChan # <<>>
            /\ held' = [held EXCEPT ![w] = Dequeue(logChan).entry]
            /\ logChan' = Dequeue(logChan).rest
            /\ pcW' = [pcW EXCEPT ![w] = "lock"]
            /\ wg' = wg
    /\ UNCHANGED <<lg, scenario, level, maxSize, now, chanClosed, mu, panic, faults,
                   pcP, pend, pcS, argS, pcC>>
    /\ UNCHANGED fileVars
    /\ UNCHANGED histVars

\* Mutant of CanLock: Lock does not wait for the holder.
CanLockAlways(m) == TRUE

\* l.mu.Lock() proceeds when no goroutine holds l.mu.
CanLock(m) == m = "free"

\* write: l.mu.Lock()
WriteLock(w) ==
    /\ Running
    /\ pcW[w] = "lock"
    /\ CanLock(mu)
    /\ mu' = w
    /\ pcW' = [pcW EXCEPT ![w] = "output"]
    /\ rot' = NoRot
    /\ UNCHANGED <<lg, scenario, level, maxSize, now, logChan, chanClosed, wg, panic, faults,
                   held, pcP, pend, pcS, argS, pcC>>
    /\ UNCHANGED <<currentSize, file, handles, inodes, activeIno, retired>>
    /\ UNCHANGED histVars

\* Mutant of WriteFilter: write applies the level test again.
WriteFilterByLevel(e, min) == e.level >= min

\* write has no level test: every entry received is formatted and written.
WriteFilter(e, min) == TRUE

\* Mutant of AfterOutput: a failed write is tried again.
AfterOutputRetry(ok) == IF ok THEN "count" ELSE "output"

\* write after Output returned: an error is printed, and in both cases write goes
\* on to the byte counter.
AfterOutput(ok) == "count"

\* write: err := l.fileWriter.Output(3, formatted); an error is printed to stderr.
\* The write fails on a closed file, and may fail on an open one.
WriteOutput(w, ioOk) ==
    /\ Running
    /\ pcW[w] = "output"
    /\ ioOk \/ FaultsLeft > 0
    /\ LET h == handles[file]
           ok == h.open /\ ioOk
       IN  IF WriteFilter(held[w], level)
           THEN /\ inodes' = IF ok THEN [inodes EXCEPT ![h.ino] = Append(@, held[w].id)]
                                   ELSE inodes
                /\ out' = Append(out, [id |-> held[w].id, ok |-> ok, h |-> file,
                                       hopen |-> h.open])
                /\ pcW' = [pcW EXCEPT ![w] = AfterOutput(ok)]
           ELSE /\ UNCHANGED <<inodes, out>>
                /\ pcW' = [pcW EXCEPT ![w] = "unlock"]
    /\ faults' = faults + (IF ioOk THEN 0 ELSE 1)
    /\ UNCHANGED <<lg, scenario, level, maxSize, now, logChan, chanClosed, wg, mu, panic,
                   held, pcP, pend, pcS, argS, pcC>>
    /\ UNCHANGED <<currentSize, file, handles, activeIno, retired, rot>>
    /\ UNCHANGED <<emits, enq, startedAtClose, blockedAtClose, emitRace, everSet>>

\* Mutant of NeedRotate: the threshold itself does not rotate.
NeedRotateStrict(size, max) == size > max

\* The rotation test of write.
NeedRotate(size, max) == size >= max

\* write: l.currentSize += int64(len(formatted) + 1), then the rotation test.
WriteCount(w) ==
    /\ Running
    /\ pcW[w] = "count"
    /\ currentSize' = currentSize + FormattedLen(held[w]) + 1
    /\ pcW' = [pcW EXCEPT ![w] = IF NeedRotate(currentSize', maxSize) THEN "rotate" ELSE "unlock"]
    /\ UNCHANGED <<lg, scenario, level, maxSize, now, logChan, chanClosed, wg, mu, panic, faults,
                   held, pcP, pend, pcS, argS, pcC>>
    /\ UNCHANGED <<file, handles, inodes, activeIno, retired, rot>>
    /\ UNCHANGED histVars

\* write: _ = l.rotate()
WriteRotate(w, o) ==
    /\ Running
    /\ pcW[w] = "rotate"
    /\ rotate(o[1], o[2], o[3])
    /\ faults' = faults + Failures(o)
    /\ pcW' = [pcW EXCEPT ![w] = "unlock"]
    /\ UNCHANGED <<lg, scenario, level, maxSize, now, logChan, chanClosed, wg, mu, panic,
                   held, pcP, pend, pcS, argS, pcC>>
    /\ UNCHANGED histVars

\* write: the deferred l.mu.Unlock(); the worker is back at the head of its loop.
WriteUnlock(w) ==
    /\ Running
    /\ pcW[w] = "unlock"
    /\ mu' = "free"
    /\ held' = [held EXCEPT ![w] = NoEntry]
    /\ pcW' = [pcW EXCEPT ![w] = "recv"]
    /\ rot' = NoRot
    /\ UNCHANGED <<lg, scenario, level, maxSize, now, logChan, chanClosed, wg, panic, faults,
                   pcP, pend, pcS, argS, pcC>>
    /\ UNCHANGED <<currentSize, file, handles, inodes, activeIno, retired>>
    /\ UNCHANGED histVars

Worker(w) ==
    \/ WorkerRecv(w)
    \/ WriteLock(w)
    \/ \E ioOk \in BOOLEAN : WriteOutput(w, ioOk)
    \/ WriteCount(w)
    \/ \E o \in RotateOutcomes : WriteRotate(w, o)
    \/ WriteUnlock(w)

\* ------------------------------------------------------------------ SetLevel
SetLevelLock(v) ==
    /\ Running
    /\ scenario = "levels"
    /\ pcS = "idle"
    /\ CanLock(mu)
    /\ mu' = "setlevel"
    /\ argS' = v
    /\ pcS' = "store"
    /\ UNCHANGED <<lg, scenario, level, maxSize, now, logChan, chanClosed, wg, panic, faults,
                   pcW, held, pcP, pend, pcC>>
    /\ UNCHANGED fileVars
    /\ UNCHANGED histVars

\* Mutant of SetLevelStore: SetLevel also restarts the byte counter.
SetLevelStoreReset ==
    /\ Running
    /\ pcS = "store"
    /\ level' = argS
    /\ currentSize' = 0
    /\ mu' = "free"
    /\ pcS' = "idle"
    /\ everSet' = TRUE
    /\ UNCHANGED <<lg, scenario, maxSize, now, logChan, chanClosed, wg, panic, faults,
                   pcW, held, pcP, pend, argS, pcC>>
    /\ UNCHANGED <<file, handles, inodes, activeIno, retired, rot>>
    /\ UNCHANGED <<emits, enq, out, startedAtClose, blockedAtClose, emitRace>>

\* l.level = level, then the deferred l.mu.Unlock()
SetLevelStore ==
    /\ Running
    /\ pcS = "store"
    /\ level' = argS
    /\ mu' = "free"
    /\ pcS' = "idle"
    /\ everSet' = TRUE
    /\ UNCHANGED <<lg, scenario, maxSize, now, logChan, chanClosed, wg, panic, faults,
                   pcW, held, pcP, pend, argS, pcC>>
    /\ UNCHANGED fileVars
    /\ UNCHANGED <<emits, enq, out, startedAtClose, blockedAtClose, emitRace>>

\* ----------------------------------------------------------------------- log
\* Mutant of Filtered: the minimum severity itself is rejected.
FilteredOffByOne(lv, min) == lv <= min

\* The level test of log.
Filtered(lv, min) == lv < min

\* log: if level < l.level { return }; l.level is read without l.mu.  A read that
\* races the store of SetLevel yields the value before or after the store: the
\* two orders of this step and SetLevelStore.
LogCheck(p, lv, n) ==
    /\ Running
    /\ pcP[p] = "idle"
    /\ Len(emits) < EmitsAllowed
    /\ LET id == Len(emits) + 1
           drop == Filtered(lv, level)
       IN  /\ emits' = Append(emits, [p |-> p, level |-> lv, len |-> n, accepted |-> ~drop])
           /\ IF drop
              THEN UNCHANGED <<pcP, pend>>
              ELSE /\ pcP' = [pcP EXCEPT ![p] = "send"]
                   /\ pend' = [pend EXCEPT ![p] = [id |-> id, level |-> lv, len |-> n]]
    /\ emitRace' = (emitRace \/ pcC # "idle")
    /\ UNCHANGED <<lg, scenario, level, maxSize, now, logChan, chanClosed, wg, mu, panic, faults,
                   pcW, held, pcS, argS, pcC, enq, out, startedAtClose, blockedAtClose, everSet>>
    /\ UNCHANGED fileVars

\* Mutant of CanSend: a send never waits.
CanSendAlways(q) == TRUE

\* A send proceeds when the buffer has room.
CanSend(q) == Len(q) < ChanCap

\* Mutant of Enqueue: the send puts the entry at the head of the buffer.
EnqueueAtHead(q, e) == <<e>> \o q

\* Mutant of Enqueue: the send overwrites the newest buffered entry.
EnqueueOverwrite(q, e) == IF q = <<>> THEN <<e>> ELSE [q EXCEPT ![Len(q)] = e]

\* The channel after a send that found room.
Enqueue(q, e) == Append(q, e)

\* Mutant of LogSend: a send on the closed channel drops the entry and returns.
LogSendDropsWhenClosed(p) ==
    /\ Running
    /\ pcP[p] = "send"
    /\ chanClosed \/ CanSend(logChan)
    /\ logChan' = IF chanClosed THEN logChan ELSE Enqueue(logChan, pend[p])
    /\ enq' = IF chanClosed THEN enq ELSE Append(enq, pend[p].id)
    /\ pcP' = [pcP EXCEPT ![p] = "idle"]
    /\ pend' = [pend EXCEPT ![p] = NoEntry]
    /\ UNCHANGED <<lg, scenario, level, maxSize, now, chanClosed, wg, mu, faults, panic,
                   pcW, held, pcS, argS, pcC, emits, out, startedAtClose, blockedAtClose,
                   emitRace, everSet>>
    /\ UNCHANGED fileVars

\* log: l.logChan <- logEntry{level, msg, time.Now()}; blocks while the buffer is
\* full, panics when the channel is closed.
LogSend(p) ==
    /\ Running
    /\ pcP[p] = "send"
    /\ \/ /\ chanClosed
          /\ panic' = "send on closed channel"
          /\ UNCHANGED <<logChan, enq, pcP, pend>>
       \/ /\ ~chanClosed
          /\ CanSend(logChan)
          /\ logChan' = Enqueue(logChan, pend[p])
          /\ enq' = Append(enq, pend[p].id)
          /\ pcP' = [pcP EXCEPT ![p] = "idle"]
          /\ pend' = [pend EXCEPT ![p] = NoEntry]
          /\ panic' = panic
    /\ UNCHANGED <<lg, scenario, level, maxSize, now, chanClosed, wg, mu, faults,
                   pcW, held, pcS, argS, pcC, emits, out, startedAtClose, blockedAtClose, emitRace, everSet>>
    /\ UNCHANGED fileVars

\* --------------------------------------------------------------------- Close
\* close(l.logChan); panics when the channel is already closed.
CloseChan ==
    /\ Running
    /\ pcC \in {"idle", "returned"}
    /\ IF chanClosed
       THEN /\ panic' = "close of closed channel"
            /\ UNCHANGED <<chanClosed, pcC, startedAtClose, blockedAtClose, emitRace>>
       ELSE /\ chanClosed' = TRUE
            /\ pcC' = "wait"
            /\ startedAtClose' = Cardinality({w \in Workers : pcW[w] # "unstarted"})
            /\ blockedAtClose' = {pend[p].id : p \in {q \in Producers :
                                      pcP[q] = "send" /\ ~CanSend(logChan)}}
            /\ emitRace' = (\E p \in Producers : pcP[p] # "idle")
            /\ panic' = panic
    /\ UNCHANGED <<lg, scenario, level, maxSize, now, logChan, wg, mu, faults,
                   pcW, held, pcP, pend, pcS, argS, emits, enq, out, everSet>>
    /\ UNCHANGED fileVars

\* l.wg.Wait()
CloseWait ==
    /\ Running
    /\ pcC = "wait"
    /\ wg = 0
    /\ pcC' = "closefile"
    /\ UNCHANGED <<lg, scenario, level, maxSize, now, logChan, chanClosed, wg, mu, panic, faults,
                   pcW, held, pcP, pend, pcS, argS>>
    /\ UNCHANGED fileVars
    /\ UNCHANGED histVars

\* if l.file != nil { l.file.Close() }
CloseFile ==
    /\ Running
    /\ pcC = "closefile"
    /\ handles' = IF file # 0
                  THEN [handles EXCEPT ![file].open = FALSE, ![file].closes = @ + 1]
                  ELSE handles
    /\ pcC' = "returned"
    /\ UNCHANGED <<lg, scenario, level, maxSize, now, logChan, chanClosed, wg, mu, panic, faults,
                   pcW, held, pcP, pend, pcS, argS>>
    /\ UNCHANGED <<currentSize, file, inodes, activeIno, retired, rot>>
    /\ UNCHANGED histVars

\* --------------------------------------------------------------------- clock
Tick ==
    /\ scenario = "files"
    /\ now + 1 \in Seconds
    /\ now' = now + 1
    /\ UNCHANGED <<lg, scenario, level, maxSize, logChan, chanClosed, wg, mu, panic, faults>>
    /\ UNCHANGED fileVars
    /\ UNCHANGED procVars
    /\ UNCHANGED histVars

\* ----------------------------------------------------------- specification
\* Before NewLogger: the target path holds no file, or a file left by an earlier run.
Init ==
    /\ lg = "none"
    /\ level = DEBUG
    /\ maxSize = 0
    /\ currentSize = 0
    /\ file = 0
    /\ handles = <<>>
    /\ \E exists \in {TRUE} :
          /\ inodes = IF exists THEN << <<>> >> ELSE <<>>
          /\ activeIno = IF exists THEN 1 ELSE 0
    /\ retired = [t \in Seconds |-> 0]
    /\ now = 0
    /\ logChan = <<>>
    /\ chanClosed = FALSE
    /\ wg = 0
    /\ mu = "free"
    /\ pcW = [w \in Workers |-> "unstarted"]
    /\ held = [w \in Workers |-> NoEntry]
    /\ pcP = [p \in Producers |-> "idle"]
    /\ pend = [p \in Producers |-> NoEntry]
    /\ pcS = "idle"
    /\ argS = DEBUG
    /\ pcC = "idle"
    /\ panic = ""
    /\ emits = <<>>
    /\ enq = <<>>
    /\ out = <<>>
    /\ rot = NoRot
    /\ startedAtClose = 0
    /\ blockedAtClose = {}
    /\ emitRace = FALSE
    /\ everSet = FALSE
    /\ faults = 0
    /\ scenario \in Scenarios

Next ==
    \/ \E lv \in InitLevels, mb \in SizesMB, o \in RotateOutcomes : NewLogger(lv, mb, o)
    \/ \E w \in Workers : StartWorker(w)
    \/ \E w \in Workers : Worker(w)
    \/ \E v \in SetLevels : SetLevelLock(v)
    \/ SetLevelStore
    \/ \E p \in Producers, c \in EmitCalls : LogCheck(p, c.level, c.len)
    \/ \E p \in Producers : LogSend(p)
    \/ CloseChan
    \/ CloseWait
    \/ CloseFile
    \/ Tick

Spec == Init /\ [][Next]_vars

\* The scheduler runs every goroutine that can take a step, and a goroutine waiting
\* for l.mu gets it eventually (sync.Mutex does not starve a waiter).
FairSpec ==
    /\ Spec
    /\ \A w \in Workers : WF_vars(Worker(w)) /\ SF_vars(WriteLock(w))
    /\ WF_vars(SetLevelStore)
    /\ WF_vars(CloseWait)
    /\ WF_vars(CloseFile)

\* ------------------------------------------------------------- properties
Ids == 1..Len(emits)
IdsOf(q) == {q[i].id : i \in DOMAIN q}
OutIds == IdsOf(out)
InRegion(w) == pcW[w] \in {"output", "count", "rotate", "unlock"}

\* The files the directory names, and how often id is a line of one of them.
Dir == ({activeIno} \cup {retired[t] : t \in Seconds}) \ {0}
LinesOf(ino, id) == Cardinality({k \in DOMAIN inodes[ino] : inodes[ino][k] = id})
Copies(S, id) == IF S = {} THEN 0 ELSE LET RECURSIVE Sum(_)
                                           Sum(T) == IF T = {} THEN 0
                                                     ELSE LET x == CHOOSE y \in T : TRUE
                                                          IN LinesOf(x, id) + Sum(T \ {x})
                                       IN Sum(S)

\* How many places hold entry id: a producer about to send it, the channel, a
\* worker that received it, the record of the writes.
Places(id) ==
    Cardinality({p \in Producers : pend[p].id = id})
    + Cardinality({k \in DOMAIN logChan : logChan[k].id = id})
    + Cardinality({w \in Workers : held[w].id = id /\ pcW[w] \in {"lock", "output"}})
    + Cardinality({k \in DOMAIN out : out[k].id = id})

\* C1 as claimed: when Close has returned, the channel is empty and every entry
\* enqueued before Close was handed to the file write.
C1_DrainOnClose_AsClaimed ==
    pcC = "returned" => /\ logChan = <<>>
                        /\ \A k \in DOMAIN enq : enq[k] \in OutIds

\* C1, amended: if StartWorker was called before Close, then when Close has returned
\* the channel is empty and every entry enqueued before Close was handed to the file
\* write (written, or reported as a write failure).
C1_DrainOnClose ==
    (pcC = "returned" /\ startedAtClose >= 1) =>
        /\ logChan = <<>>
        /\ \A k \in DOMAIN enq : enq[k] \in OutIds

C1_Witness ==
    /\ pcC = "returned"
    /\ startedAtClose >= 1
    /\ Len(enq) >= 2
    /\ Len(out) = Len(enq)
    /\ \E k \in DOMAIN out : ~out[k].ok

\* C2: with StartWorker called at most once, the writes happen in the order of the
\* sends, which is the order of the producer's emit calls; no entry is written
\* twice and no two writes are in progress at once.
C2_Fifo ==
    Started <= 1 =>
        /\ Len(out) <= Len(enq)
        /\ \A k \in DOMAIN out : out[k].id = enq[k]
        /\ \A j, k \in DOMAIN enq : j < k => enq[j] < enq[k]
        /\ Cardinality({w \in Workers : InRegion(w)}) <= 1

C2_Witness ==
    /\ Started = 1
    /\ Len(out) = ChanCap + 1

\* C3: an emit is accepted iff its severity is at least the minimum read by the
\* call; a rejected emit changes nothing and returns at once; a line is only ever
\* written for an accepted emit, and an accepted entry whose write succeeds is a
\* line of the active file.
C3_FilterStep ==
    /\ emits' # emits =>
          LET e == emits'[Len(emits')]
          IN  /\ e.accepted <=> e.level >= level
              /\ e.accepted => /\ pcP'[e.p] = "send"
                               /\ pend'[e.p].id = Len(emits')
                               /\ pend'[e.p].level = e.level
              /\ ~e.accepted => /\ UNCHANGED loggerVars
                                /\ UNCHANGED <<pcP, pend, mu, panic, enq, out>>
    /\ out' # out =>
          LET o == out'[Len(out')]
          IN  o.ok => /\ handles[file].ino = activeIno
                      /\ inodes'[activeIno] = Append(inodes[activeIno], o.id)

C3_FilterInv ==
    /\ \A i \in Ids : ~emits[i].accepted =>
          /\ Places(i) = 0
          /\ \A n \in DOMAIN inodes : LinesOf(n, i) = 0
    /\ \A n \in DOMAIN inodes : \A k \in DOMAIN inodes[n] :
          inodes[n][k] \in Ids /\ emits[inodes[n][k]].accepted

C3_LevelFilter == [][C3_FilterStep]_vars /\ []C3_FilterInv

\* A rejected emit returned although the channel was full and no worker was started.
C3_Witness ==
    /\ Started = 0
    /\ Len(logChan) = ChanCap
    /\ emits # <<>>
    /\ ~emits[Len(emits)].accepted
    /\ \A p \in Producers : pcP[p] = "idle"

\* C4: the channel never holds more than its capacity; a send that finds it full
\* waits, and when it proceeds the entry is appended; every accepted entry is in
\* exactly one place (being sent, buffered, received, or written).
C4_SendStep ==
    \A p \in Producers :
        /\ (pcP[p] = "send" /\ Len(logChan) >= ChanCap) =>
              (pcP'[p] = "send" /\ pend'[p] = pend[p])
        /\ (pcP[p] = "send" /\ pcP'[p] = "idle") =>
              (Len(logChan) < ChanCap /\ logChan' = Append(logChan, pend[p]))

C4_QueueInv ==
    /\ Len(logChan) <= ChanCap
    /\ \A i \in Ids : emits[i].accepted => Places(i) = 1

C4_Backpressure == [][C4_SendStep]_vars /\ []C4_QueueInv

C4_Witness ==
    /\ Started = 1
    /\ Len(logChan) = ChanCap
    /\ \E p \in Producers : pcP[p] = "send"

\* C5 as claimed: when a write is about to release the lock, the counter is below
\* the threshold, and if the write rotated, the active file is a newly opened empty
\* file with counter 0 and the previous file carries the retirement name.  (The
\* new handle is open unless Close has closed it meanwhile.)
C5_RotationTrigger_AsClaimed ==
    \A w \in Workers : pcW[w] = "unlock" =>
        /\ currentSize < maxSize
        /\ rot.ran =>
              /\ currentSize = 0
              /\ file # rot.prevFile
              /\ handles[file].open \/ pcC = "returned"
              /\ handles[file].ino = activeIno
              /\ inodes[activeIno] = <<>>
              /\ rot.prevIno # 0 => /\ retired[rot.stamp] = rot.prevIno
                                    /\ activeIno # rot.prevIno

\* C5, amended: when a write is about to release the lock with the counter at or
\* above the threshold, rotate has run in this write and its open failed.  After a
\* rotate whose open succeeded the counter is 0 and l.file is a newly opened handle
\* on the file at the target path; if the rename succeeded too, the previous file
\* carries the retirement name and the target path is a new, empty file.  (The
\* new handle is open unless Close has closed it meanwhile.)
C5_RotationTrigger ==
    \A w \in Workers : pcW[w] = "unlock" =>
        /\ currentSize >= maxSize => (rot.ran /\ rot.err)
        /\ (rot.ran /\ ~rot.err) =>
              /\ currentSize = 0
              /\ file # rot.prevFile
              /\ handles[file].open \/ pcC = "returned"
              /\ handles[file].ino = activeIno
        /\ (rot.ran /\ ~rot.err /\ rot.renameOk) =>
              /\ retired[rot.stamp] = rot.prevIno
              /\ activeIno # rot.prevIno
              /\ inodes[activeIno] = <<>>

\* Two writes reached the threshold together and the rotation succeeded.
C5_Witness ==
    \E w \in Workers :
        /\ pcW[w] = "unlock"
        /\ rot.ran /\ ~rot.err /\ rot.renameOk
        /\ rot.sizeBefore = maxSize
        /\ Len(out) = 2

\* C6: every entry whose write succeeded is a line, exactly once, of the active
\* file or of a retired file.
C6_NoLossAcrossRotation ==
    \A k \in DOMAIN out : out[k].ok => Copies(Dir, out[k].id) = 1

\* C7: if StartWorker was called once, before Close, and no emit is in progress or
\* issued once Close has begun, Close returns; the channel is then empty, the
\* worker has left its loop and l.file is closed.
C7_CloseTerminates ==
    (pcC = "wait" /\ startedAtClose = 1 /\ Started = 1 /\ ~emitRace)
        ~> \/ emitRace
           \/ Started > 1
           \/ /\ pcC = "returned"
              /\ logChan = <<>>
              /\ \A w \in Workers : pcW[w] \in {"unstarted", "done"}
              /\ ~handles[file].open

C7_Witness ==
    /\ pcC = "returned"
    /\ startedAtClose = 1
    /\ Started = 1
    /\ ~emitRace
    /\ Len(out) >= 2
    /\ ~handles[file].open

\* C8: while StartWorker has not been called, a send that finds the channel full
\* does not return and its entry is neither enqueued nor dropped; no more than
\* ChanCap entries are ever sent and none is written.
C8_BlockedStep ==
    \A p \in Producers :
        (Started = 0 /\ pcP[p] = "send" /\ Len(logChan) >= ChanCap) =>
            (pcP'[p] = "send" /\ pend'[p] = pend[p] /\ logChan' = logChan)

C8_NoConsumerInv ==
    Started = 0 => (Len(enq) <= ChanCap /\ out = <<>> /\ Len(logChan) = Len(enq))

C8_DeadlockWithoutConsumer == [][C8_BlockedStep]_vars /\ []C8_NoConsumerInv

C8_Witness ==
    /\ Started = 0
    /\ Len(logChan) = ChanCap
    /\ \E p \in Producers : pcP[p] = "send"
    /\ pcC = "idle"

\* C9: the worker hands every entry it received to the file write, whatever the
\* minimum severity is by then; an emit rejected at submission never reaches the
\* channel, a worker or a file.
C9_WriteStep ==
    \A w \in Workers :
        (pcW[w] = "output" /\ pcW'[w] # "output") =>
            /\ Len(out') = Len(out) + 1
            /\ out'[Len(out')].id = held[w].id

C9_DroppedInv ==
    \A i \in Ids : ~emits[i].accepted =>
        /\ i \notin IdsOf(logChan)
        /\ i \notin OutIds
        /\ \A w \in Workers : held[w].id # i
        /\ \A p \in Producers : pend[p].id # i

C9_SetLevelLaterEmitsOnly == [][C9_WriteStep]_vars /\ []C9_DroppedInv

\* An entry was written although the minimum severity is now above its severity,
\* and an emit rejected earlier has a severity the minimum now admits.
C9_Witness ==
    /\ everSet
    /\ \E k \in DOMAIN out : out[k].ok /\ emits[out[k].id].level < level
    /\ pcS = "idle"

C9_WitnessLowered ==
    /\ everSet
    /\ \E i \in Ids : ~emits[i].accepted /\ emits[i].level >= level
    /\ out # <<>>

\* C10: SetLevel changes l.level and nothing else of the logger, and a call with
\* the value l.level already has changes nothing of the logger.
C10_SetLevelStep ==
    (pcS = "store" /\ pcS' = "idle") =>
        /\ level' = argS
        /\ UNCHANGED <<maxSize, currentSize, file, handles, inodes, activeIno, retired,
                       logChan, chanClosed, wg, pcW, held, pcP, pend, pcC, panic>>
        /\ level = argS => UNCHANGED loggerVars

C10_SetLevelIdempotent == [][C10_SetLevelStep]_vars

\* A second call in a row with the same value, with the channel and the counter in use.
C10_Witness ==
    /\ everSet
    /\ pcS = "store"
    /\ argS = level
    /\ logChan # <<>>
    /\ currentSize > 0

\* C11: NewLogger runs rotate exactly once (one open attempt, at most one handle).
\* If the open fails it returns an error and no Logger, and nothing is ever logged;
\* if it succeeds, the Logger has an open handle on the file at the target path, a
\* byte counter of 0, an empty channel and no worker.
C11_NewLoggerStep ==
    lg = "none" /\ lg' # "none" =>
        /\ rot'.ran
        /\ lg' = "failed" <=> rot'.err
        /\ lg' = "failed" => (file' = 0 /\ handles' = <<>>)
        /\ lg' = "ok" => /\ Len(handles') = 1
                         /\ file' = 1
                         /\ handles'[file'].open
                         /\ handles'[file'].ino = activeIno'
                         /\ activeIno' # 0
                         /\ currentSize' = 0
                         /\ logChan' = <<>>
                         /\ wg' = 0
                         /\ \A w \in Workers : pcW'[w] = "unstarted"

C11_NoLoggerInv ==
    lg # "ok" => /\ emits = <<>> /\ enq = <<>> /\ out = <<>> /\ logChan = <<>>
                 /\ \A w \in Workers : pcW[w] = "unstarted"
                 /\ \A n \in DOMAIN inodes : inodes[n] = <<>>

C11_Construction == [][C11_NewLoggerStep]_vars /\ []C11_NoLoggerInv

\* NewLogger returned an error: the open failed.
C11_Witness ==
    /\ lg = "failed"
    /\ rot.ran /\ rot.err
    /\ file = 0

\* Position of id in the order of the sends (0 if it was not sent).
EnqPos(id) == IF \E j \in DOMAIN enq : enq[j] = id
              THEN CHOOSE j \in DOMAIN enq : enq[j] = id
              ELSE 0

\* Two entries were written in the reverse of the order in which they were sent.
Inverted == \E j, k \in DOMAIN out : j < k /\ EnqPos(out[j].id) > EnqPos(out[k].id)

\* C12: with StartWorker called twice the writes can happen in the reverse of the
\* order of the sends (C12_Witness is such a state).  Only a second worker does
\* that: writes are reversed only after two calls of StartWorker, every write is
\* of an entry that was sent, none is written twice, and an entry is written at
\* most one place ahead of its place in the order of the sends (the entry it
\* overtook is the one the other worker holds).
C12_TwoWorkerOrder ==
    /\ Inverted => Started = 2
    /\ \A k \in DOMAIN out : /\ EnqPos(out[k].id) # 0
                              /\ EnqPos(out[k].id) <= k + (Started - 1)
    /\ \A j, k \in DOMAIN out : j # k => out[j].id # out[k].id

\* One producer's entries e1, e2, accepted and sent in that order, are lines of the
\* active file in the order e2, e1.
C12_Witness ==
    /\ Started = 2
    /\ Cardinality({emits[i].p : i \in Ids}) = 1
    /\ Len(enq) = 2
    /\ enq[1] < enq[2]
    /\ Len(out) = 2
    /\ out[1].id = enq[2] /\ out[2].id = enq[1]
    /\ inodes[activeIno] = <<enq[2], enq[1]>>

\* C13: emit reads l.level holding l.mu, so no read of l.level by an emit happens
\* while SetLevel holds l.mu for its write.
C13_LockedLevelStep ==
    emits' # emits => /\ mu # "setlevel"
                      /\ pcS # "store"

C13_LockedLevelCheck == [][C13_LockedLevelStep]_vars

\* C14: the byte counter grows by len(formatted) + 1 after a write that succeeded;
\* a write that failed leaves the counter unchanged and triggers no rotation.
C14_CountStep ==
    \A w \in Workers :
        (pcW[w] = "count" /\ pcW'[w] # "count") =>
            IF out[Len(out)].ok
            THEN currentSize' = currentSize + FormattedLen(held[w]) + 1
            ELSE currentSize' = currentSize /\ pcW'[w] # "rotate"

C14_CountsSuccessfulWritesOnly == [][C14_CountStep]_vars

\* C15: a write that fails changes nothing but the record of the writes: the worker
\* goes on to the counter, the channel and the callers are untouched.  The failed
\* entry is handed to the file write once, is in no file and is not put back on the
\* channel.  A worker leaves its loop only when the channel is closed and empty,
\* and a worker in its loop can always take its next step while the process runs
\* (it receives the oldest entry whenever the channel is not empty).
C15_FailStep ==
    (out' # out /\ ~out'[Len(out')].ok) =>
        /\ \E w \in Workers : /\ pcW[w] = "output" /\ pcW'[w] = "count"
                               /\ out'[Len(out')].id = held[w].id
        /\ UNCHANGED <<logChan, chanClosed, wg, inodes, pcP, pend, panic, held, emits, enq>>

C15_ExitStep ==
    \A w \in Workers :
        (pcW[w] # "done" /\ pcW'[w] = "done") =>
            (pcW[w] = "recv" /\ chanClosed /\ logChan = <<>>)

C15_FailedInv ==
    /\ \A k \in DOMAIN out : ~out[k].ok =>
          /\ Cardinality({j \in DOMAIN out : out[j].id = out[k].id}) = 1
          /\ out[k].id \notin IdsOf(logChan)
          /\ \A p \in Producers : pend[p].id # out[k].id
          /\ \A n \in DOMAIN inodes : LinesOf(n, out[k].id) = 0
    /\ \A w \in Workers :
          /\ (Running /\ pcW[w] \in {"output", "count", "rotate", "unlock"}) => ENABLED Worker(w)
          /\ (Running /\ pcW[w] = "recv" /\ logChan # <<>>) => ENABLED WorkerRecv(w)

C15_WriteFailureIsLocal ==
    [][C15_FailStep /\ C15_ExitStep]_vars /\ []C15_FailedInv

\* The write of the first entry failed and the same worker wrote the next one.
C15_Witness ==
    /\ Started = 1
    /\ Len(out) = 2
    /\ ~out[1].ok /\ out[2].ok
    /\ out[1].id = enq[1] /\ out[2].id = enq[2]
    /\ inodes[handles[out[2].h].ino] = <<enq[2]>>
    /\ \A p \in Producers : pcP[p] = "idle"

\* A step that runs rotate: NewLogger, or the rotation of a write.
RotateStep == (lg = "none" /\ lg' # "none") \/ \E w \in Workers : pcW[w] = "rotate" /\ pcW'[w] # "rotate"

\* C16: a rotate whose open succeeded ends with the counter at 0 and a newly opened
\* handle installed; a rotate whose open failed leaves the counter; no other step
\* lowers the counter: only the counting step of a write changes it, upwards.
C16_ResetStep ==
    /\ RotateStep =>
          IF rot'.err
          THEN currentSize' = currentSize /\ file' = file
          ELSE /\ currentSize' = 0
               /\ file' # file
               /\ handles'[file'].open /\ handles'[file'].closes = 0
    /\ ~RotateStep =>
          /\ file' = file
          /\ currentSize' >= currentSize
          /\ currentSize' # currentSize => \E w \in Workers : pcW[w] = "count" /\ pcW'[w] # "count"

C16_CounterReset == [][C16_ResetStep]_vars

\* A rotation whose open failed left the counter at the threshold.
C16_Witness ==
    \E w \in Workers :
        /\ pcW[w] = "unlock"
        /\ rot.ran /\ rot.err
        /\ currentSize >= maxSize
        /\ currentSize = rot.sizeBefore

\* C17: at most one handle on the target path is open at a time; no handle is
\* closed twice, and no write goes to a handle that was closed.
C17_SingleOpenHandle ==
    /\ Cardinality({h \in DOMAIN handles : handles[h].open}) <= 1
    /\ \A h \in DOMAIN handles : handles[h].closes <= 1
    /\ \A k \in DOMAIN out : out[k].hopen

\* C18: rotate returns an error exactly when the open of the target path failed: a
\* failed os.MkdirAll or os.Rename gives no error and the open is still attempted
\* (with a successful open a new handle is installed).  After a rotate that
\* returned no error, l.file is an open handle on the file at the target path
\* and the counter is 0.
C18_RotateStep ==
    RotateStep =>
        /\ rot'.ran
        /\ rot'.err <=> ~rot'.openOk
        /\ rot'.openOk <=> Len(handles') = Len(handles) + 1
        /\ ~rot'.err => /\ file' = Len(handles')
                        /\ handles'[file'].open
                        /\ handles'[file'].ino = activeIno'
                        /\ activeIno' # 0
                        /\ currentSize' = 0
        /\ (rot'.statOk /\ ~rot'.renameOk) => (activeIno' = activeIno /\ retired' = retired)

C18_RotateErrorPolicy == [][C18_RotateStep]_vars

\* A rotation of a write whose rename failed returned no error: the handle is new,
\* the file at the target path is the old one.
C18_Witness ==
    \E w \in Workers :
        /\ pcW[w] = "unlock"
        /\ rot.ran /\ ~rot.err
        /\ rot.statOk /\ ~rot.renameOk
        /\ file # rot.prevFile
        /\ activeIno = rot.prevIno
        /\ currentSize = 0

\* A rotation whose directory creation failed returned no error.
C18_WitnessMkdir ==
    /\ rot.ran /\ ~rot.err /\ ~rot.mkdirOk
    /\ handles[file].open

\* C19: from its Lock to its Unlock a write holds l.mu, and at most one worker is
\* between the two, however many were started.  Only that worker writes a line,
\* changes the counter or installs a file; so while a write is between its file
\* write and the end of its rotation no other line is written, and no line is
\* written while a rotation is closing or replacing the handle.
C19_RegionInv ==
    /\ Cardinality({w \in Workers : InRegion(w)}) <= 1
    /\ \A w \in Workers : InRegion(w) <=> mu = w

C19_RegionStep ==
    /\ out' # out =>
          \E w \in Workers : /\ mu = w /\ pcW[w] = "output"
                             /\ \A v \in Workers : pcW[v] \notin {"count", "rotate", "unlock"}
    /\ (lg = "ok" /\ currentSize' # currentSize) =>
          \E w \in Workers : mu = w /\ pcW[w] \in {"count", "rotate"}
    /\ (lg = "ok" /\ file' # file) =>
          \E w \in Workers : mu = w /\ pcW[w] = "rotate"
    /\ \A w \in Workers :
          /\ (pcW[w] \in {"count", "rotate"}) => (out' = out /\ \A n \in DOMAIN inodes : inodes'[n] = inodes[n])
          /\ (pcW[w] = "count" /\ pcW'[w] # "count") =>
                (pcW'[w] = "rotate" <=> currentSize' >= maxSize)
          /\ (mu = w /\ mu' # w) => (pcW[w] = "unlock" /\ mu' = "free")

C19_AtomicWriteRegion == [][C19_RegionStep]_vars /\ []C19_RegionInv

\* Two workers were started; one is rotating, the other waits for l.mu with the
\* next entry.
C19_Witness ==
    /\ Started = 2
    /\ \E w, v \in Workers : /\ pcW[w] = "rotate" /\ mu = w
                              /\ pcW[v] = "lock" /\ held[v].id # 0

\* C20: a send on the closed channel never completes: the entry is neither
\* enqueued nor dropped, and the only step the sender can take is the panic "send
\* on closed channel", whether its send was waiting when Close ran or came later.
\* A call of Close after Close returned panics with "close of closed channel" and
\* does nothing else.  A panic ends the process: nothing is enqueued or written
\* after it, and the entry of the faulting send is in no file.
C20_FaultStep ==
    /\ \A p \in Producers :
          (pcP[p] = "send" /\ chanClosed) =>
              /\ pcP'[p] = "send" /\ pend'[p] = pend[p]
              /\ enq' = enq
              /\ pend[p].id \notin IdsOf(logChan')
    /\ pcC = "returned" => (pcC' = "returned" /\ chanClosed')
    /\ panic' # panic =>
          /\ panic = "" /\ chanClosed
          /\ \/ panic' = "send on closed channel" /\ \E p \in Producers : pcP[p] = "send"
             \/ panic' = "close of closed channel" /\ pcC = "returned"
          /\ UNCHANGED <<loggerVars, procVars, emits, enq, out>>
    /\ panic # "" => UNCHANGED <<loggerVars, procVars, emits, enq, out, panic, mu>>

C20_FaultInv ==
    /\ \A p \in Producers :
          (Running /\ pcP[p] = "send" /\ chanClosed) =>
              /\ ENABLED (LogSend(p) /\ panic' = "send on closed channel")
              /\ ~ENABLED (LogSend(p) /\ panic' = panic)
              /\ pend[p].id \notin (OutIds \cup IdsOf(logChan) \cup Range(enq))
    /\ (Running /\ pcC = "returned") =>
          /\ ENABLED (CloseChan /\ panic' = "close of closed channel")
          /\ ~ENABLED (CloseChan /\ panic' = panic)
    /\ panic = "send on closed channel" =>
          \E p \in Producers :
              /\ pcP[p] = "send"
              /\ pend[p].id \notin (OutIds \cup IdsOf(logChan) \cup Range(enq))
              /\ \A n \in DOMAIN inodes : LinesOf(n, pend[p].id) = 0

C20_CloseUnsafe == [][C20_FaultStep]_vars /\ []C20_FaultInv

\* An emit whose send was waiting on the full channel when Close ran has panicked.
C20_Witness ==
    /\ panic = "send on closed channel"
    /\ Started = 0
    /\ Len(logChan) = ChanCap
    /\ \E p \in Producers : pcP[p] = "send" /\ pend[p].id \in blockedAtClose

\* An emit issued after Close returned has panicked.
C20_WitnessLater ==
    /\ panic = "send on closed channel"
    /\ pcC = "returned"
    /\ blockedAtClose = {}
    /\ out # <<>>

\* A second Close has panicked after the first one drained the channel.
C20_WitnessSecondClose ==
    /\ panic = "close of closed channel"
    /\ pcC = "returned"
    /\ startedAtClose = 1
    /\ out # <<>>

====
